---- MODULE Spec2Model ----
(***************************************************************************)
(* The adversarial training loop of train() in src/train.py, as a state    *)
(* machine.  One action per statement group of the loop body; pc is the    *)
(* position of train() in its own text.                                    *)
(*                                                                         *)
(* Tensors are not modelled numerically.  A parameter set is the number of *)
(* optimizer updates applied to it and whether it holds a non-finite       *)
(* value; an accumulated gradient (.grad of a model's parameters) is the   *)
(* set of backward passes that have added to it since it was last cleared  *)
(* and whether it holds an inf/NaN.  torch.cuda.amp.GradScaler is modelled *)
(* by its documented behaviour (init_scale 2^16, growth_factor 2,          *)
(* backoff_factor 1/2, growth_interval, disabled when CUDA is absent); the *)
(* scale factor is kept as its base-2 exponent.                            *)
(***************************************************************************)
EXTENDS Integers, Sequences, FiniteSets, TLC

\* ------------------------------------------------------------------ bounds
\* range(epochs) at train.py:24,63 runs 100 epochs; the model runs Epochs.
Epochs == 2
\* len(cartoon_dataloader), len(real_dataloader) are drawn from 1..MaxBatches.
MaxBatches == 3
\* GradScaler() at train.py:35 takes the default growth_interval (2000);
\* the model scales the interval down.
GrowthInterval == 2

\* log2 of GradScaler's default init_scale, 65536.0 (train.py:35).
InitScaleExp == 16

\* The interval literals of train.py:135 and train.py:140 are 200 and 1000.
\* The model draws the pair of intervals from Intervals when train() starts;
\* <<1, 5>> keeps the ratio of the literals, <<1, 2>> has a checkpoint
\* interval of 2, and under <<2, 4>> some step-pairs do neither and some
\* previews come without a checkpoint.  Like 200 and 1000, every pair has a
\* preview interval that divides the checkpoint interval.
Intervals == {<<1, 5>>, <<1, 2>>, <<2, 4>>}

Models == {"D", "G"}

VARIABLES
    pc,                 \* position of train() in its text
    error,              \* the exception that ended train(), or "none"
    cuda,               \* torch.cuda.is_available()            (line 16)
    len_cartoon,        \* len(cartoon_dataloader)              (line 48)
    len_real,           \* len(real_dataloader)                 (line 47)
    preview_interval,   \* the modulus of line 135
    checkpoint_interval,\* the modulus of line 140
    epoch,              \* loop variable of line 63
    i,                  \* enumerate index of line 66
    it_cartoon,         \* batches the epoch's cartoon iterator has yielded
    it_real,            \* batches the epoch's real iterator has yielded
    iters,              \* global step counter                  (line 57)
    params,             \* params[m]: parameter set of netD / netG
    grads,              \* grads[m]: accumulated .grad of netD / netG
    scale_exp,          \* log2 of scaler._scale
    growth_tracker,     \* scaler._growth_tracker
    found_inf,          \* scaler._per_optimizer_states[opt]["found_inf"]
    generated_data,     \* identity of the tensor bound to generated_data
    gen_calls,          \* netG(real_data) calls in the current step-pair
    used,               \* which generated tensor each consumer read
    tracked_images,     \* identity of the held-out batch        (line 59)
    G_losses,           \* line 55
    D_losses,           \* line 56
    ops,                \* operations of the current step-pair, in order
    seen_inf,           \* seen_inf[m]: a non-finite gradient was present
                        \* when scaler.step(optimizer m) was called
    ok_run,             \* consecutive step-pairs with only finite gradients
    grew,               \* the scale factor rose during those step-pairs
    last_update,        \* the last update(): whether a non-finite gradient
                        \* preceded it, and scale_exp before and after it
    preview_events,     \* preview images written
    ckpt_events,        \* checkpoint events (both state_dicts written)
    preview_inputs,     \* the batches the previews were rendered from
    events              \* the artifacts written: what, and at which iters

vars == <<pc, error, cuda, len_cartoon, len_real, preview_interval,
          checkpoint_interval, epoch, i, it_cartoon, it_real, iters, params,
          grads, scale_exp, growth_tracker, found_inf, generated_data,
          gen_calls, used, tracked_images, G_losses, D_losses, ops, seen_inf,
          ok_run, grew, last_update, preview_events, ckpt_events,
          preview_inputs, events>>

\* Variable groups, for UNCHANGED.
cfgVars   == <<cuda, len_cartoon, len_real, preview_interval,
               checkpoint_interval>>
loopVars  == <<epoch, i, it_cartoon, it_real>>
scalerVars == <<scale_exp, growth_tracker, found_inf>>
genVars   == <<generated_data, gen_calls, used>>
lossVars  == <<G_losses, D_losses>>
ghostVars == <<seen_inf, ok_run, grew, last_update>>
sinkVars  == <<preview_events, ckpt_events, preview_inputs, events>>

NoTensor == [step |-> -1, call |-> 0]

\* ------------------------------------------------------- gradients, params
\* A freshly constructed / loaded parameter set (lines 27-30).
InitParams == [updates |-> 0, nan |-> FALSE]

\* Module.zero_grad(): every .grad of the module is cleared (lines 73, 105).
\* A cleared .grad: no backward pass has added to it.
NoGrad == [from |-> {}, inf |-> FALSE]

ZeroGradKeep(g) == g
ZeroGrad(g) == NoGrad

\* The gradient of one backward pass of `loss` in step-pair `step`, computed
\* from a loss multiplied by 2^sexp.
Contribution(step, loss, sexp) == [step |-> step, loss |-> loss, scale |-> sexp]

\* Tensor.backward() adds the new gradient to .grad (lines 93, 115).
Accumulate(g, c, inf) == [from |-> g.from \cup {c}, inf |-> g.inf \/ inf]

\* A forward pass through a non-finite parameter yields a non-finite loss, so
\* every gradient of the following backward pass is non-finite.
Poisoned == params["D"].nan \/ params["G"].nan
Overflows == IF Poisoned THEN {TRUE} ELSE BOOLEAN

\* AdamW.step(): always moves the parameters (decoupled weight decay), and a
\* non-finite gradient makes them non-finite (lines 32-33).
OptimizerStep(p, g) == [updates |-> p.updates + 1, nan |-> p.nan \/ g.inf]


\* ------------------------------------------------------------ GradScaler
\* GradScaler.__init__ turns itself off when CUDA is not available, the
\* device line 16 falls back to "cpu" for (lines 16, 35).
ScalerEnabled == cuda

\* scaler.scale(loss): loss * _scale when enabled, loss itself otherwise.  The
\* exponent of the factor the loss was multiplied by (lines 93, 115).
ScaleOf(enabled, sexp) == IF enabled THEN sexp ELSE 0

\* scaler.step(optimizer) on one parameter set: enabled, it unscales the
\* gradients, records found_inf and calls optimizer.step() only when no
\* inf/NaN was found; disabled, it is optimizer.step() (lines 97, 120).
ScalerStepAlways(enabled, p, g) == OptimizerStep(p, g)
ScalerStepSharedFlag(enabled, p, g) ==
    IF enabled /\ (g.inf \/ \E m \in Models : found_inf[m] = "inf")
    THEN p ELSE OptimizerStep(p, g)
ScalerStep(enabled, p, g) ==
    IF enabled /\ g.inf THEN p ELSE OptimizerStep(p, g)

\* The found_inf record scaler.step(optimizer) leaves for update().
FoundInf(enabled, g) ==
    IF ~enabled THEN "none" ELSE IF g.inf THEN "inf" ELSE "ok"

\* scaler.update() on (_scale, _growth_tracker): an overflow recorded by any
\* optimizer since the last update() halves the scale and clears the tracker;
\* otherwise the tracker advances and the scale doubles when the tracker
\* reaches growth_interval; disabled, update() returns at once (line 122).
ScalerUpdateNoGrowth(enabled, sexp, tracker, overflow) ==
    IF ~enabled THEN [scale_exp |-> sexp, growth_tracker |-> tracker]
    ELSE IF overflow THEN [scale_exp |-> sexp - 1, growth_tracker |-> 0]
    ELSE [scale_exp |-> sexp, growth_tracker |-> (tracker + 1) % GrowthInterval]
ScalerUpdate(enabled, sexp, tracker, overflow) ==
    IF ~enabled THEN [scale_exp |-> sexp, growth_tracker |-> tracker]
    ELSE IF overflow THEN [scale_exp |-> sexp - 1, growth_tracker |-> 0]
    ELSE IF tracker + 1 = GrowthInterval
         THEN [scale_exp |-> sexp + 1, growth_tracker |-> 0]
         ELSE [scale_exp |-> sexp, growth_tracker |-> tracker + 1]

\* ------------------------------------------------------ autograd wiring
\* The parameter sets a loss's backward pass reaches.  errD is computed from
\* netD(cartoon_data), netD(edge_data) and netD(generated_data), and
\* generated_data = netG(real_data) is not detached (lines 82-90); errG is
\* computed from netD(generated_data) and generated_data, with netD's
\* parameters still requiring grad (lines 109-112).
Reaches(loss) ==
    CASE loss = "errD" -> {"D", "G"}
      [] loss = "errG" -> {"D", "G"}

\* loss.backward() over both models' .grad; infs[m] says whether the
\* gradient it computes for m's parameters is non-finite.
Backward(gr, loss, c, infs) ==
    [m \in Models |->
        IF m \in Reaches(loss) THEN Accumulate(gr[m], c, infs[m]) ELSE gr[m]]

\* The model whose parameters each optimizer was constructed over
\* (lines 32-33).
OptimizerGOverD == "D"
OptimizerDParams == "D"
OptimizerGParams == "G"

\* ------------------------------------------------------ sink triggers
\* iters % 200 == 0 (line 135) and iters % 1000 == 0 (line 140), with the
\* literal replaced by the configured interval.
PreviewDueAfter(n, interval) == (n + 1) % interval = 0
PreviewDue(n, interval) == n % interval = 0
CheckpointDueAfter(n, interval) == (n + 1) % interval = 0
CheckpointDue(n, interval) == n % interval = 0

\* An artifact written while the step counter stood at n: the preview image
\* of line 138, or the pair of state_dict files of lines 141-142.
SinkEvent(kind, n) == [kind |-> kind, step |-> n]

\* The batch the preview is rendered from: netG(tracked_images) (line 137).
PreviewInputCurrentBatch == "real_data"
PreviewInput == tracked_images


\* ------------------------------------------------------- statement order
\* The statement order of the loop body, lines 66-144: the position that
\* follows position p when p's statement raises nothing ("zip" is the loop
\* head, once it has yielded a batch).
NextPcGeneratorFirst(p) ==
    CASE p = "zip"         -> "zero_grad_G"
      [] p = "zero_grad_G" -> "forward_G"
      [] p = "forward_G"   -> "forward_D2"
      [] p = "forward_D2"  -> "backward_G"
      [] p = "backward_G"  -> "step_G"
      [] p = "step_G"      -> "zero_grad_D"
      [] p = "zero_grad_D" -> "forward_D"
      [] p = "forward_D"   -> "backward_D"
      [] p = "backward_D"  -> "step_D"
      [] p = "step_D"      -> "update"
      [] p = "update"      -> "append"
      [] p = "append"      -> "preview"
      [] p = "preview"     -> "checkpoint"
      [] p = "checkpoint"  -> "increment"
      [] p = "increment"   -> "zip"
NextPcUpdateAfterD(p) ==
    CASE p = "zip"         -> "zero_grad_D"
      [] p = "zero_grad_D" -> "forward_G"
      [] p = "forward_G"   -> "forward_D"
      [] p = "forward_D"   -> "backward_D"
      [] p = "backward_D"  -> "step_D"
      [] p = "step_D"      -> "update"
      [] p = "update"      -> "zero_grad_G"
      [] p = "zero_grad_G" -> "forward_D2"
      [] p = "forward_D2"  -> "backward_G"
      [] p = "backward_G"  -> "step_G"
      [] p = "step_G"      -> "append"
      [] p = "append"      -> "preview"
      [] p = "preview"     -> "checkpoint"
      [] p = "checkpoint"  -> "increment"
      [] p = "increment"   -> "zip"
NextPc(p) ==
    CASE p = "zip"         -> "zero_grad_D"    \* line 66  -> 73
      [] p = "zero_grad_D" -> "forward_G"      \* line 73  -> 82
      [] p = "forward_G"   -> "forward_D"      \* line 82  -> 85
      [] p = "forward_D"   -> "backward_D"     \* line 90  -> 93
      [] p = "backward_D"  -> "step_D"         \* line 93  -> 97
      [] p = "step_D"      -> "zero_grad_G"    \* line 97  -> 105
      [] p = "zero_grad_G" -> "forward_D2"     \* line 105 -> 109
      [] p = "forward_D2"  -> "backward_G"     \* line 112 -> 115
      [] p = "backward_G"  -> "step_G"         \* line 115 -> 120
      [] p = "step_G"      -> "update"         \* line 120 -> 122
      [] p = "update"      -> "append"         \* line 122 -> 127
      [] p = "append"      -> "preview"        \* line 128 -> 135
      [] p = "preview"     -> "checkpoint"     \* line 138 -> 140
      [] p = "checkpoint"  -> "increment"      \* line 142 -> 144
      [] p = "increment"   -> "zip"            \* line 144 -> 66

\* ------------------------------------------------------------------ Init
\* The state at entry to train(): the environment (CUDA, the two datasets'
\* lengths) and the interval configuration are fixed; nothing has run.
Init ==
    /\ pc = "start"
    /\ error = "none"
    /\ cuda \in BOOLEAN
    /\ len_cartoon \in 1..MaxBatches
    /\ len_real \in 1..MaxBatches
    /\ \E iv \in Intervals :
          preview_interval = iv[1] /\ checkpoint_interval = iv[2]
    /\ epoch = 0
    /\ i = 0
    /\ it_cartoon = 0
    /\ it_real = 0
    /\ iters = 0
    /\ params = [m \in Models |-> InitParams]
    /\ grads = [m \in Models |-> NoGrad]
    /\ scale_exp = InitScaleExp
    /\ growth_tracker = 0
    /\ found_inf = [m \in Models |-> "none"]
    /\ generated_data = NoTensor
    /\ gen_calls = 0
    /\ used = [D1 |-> NoTensor, D2 |-> NoTensor, content |-> NoTensor]
    /\ tracked_images = "none"
    /\ G_losses = <<>>
    /\ D_losses = <<>>
    /\ ops = <<>>
    /\ seen_inf = [m \in Models |-> FALSE]
    /\ ok_run = 0
    /\ grew = FALSE
    /\ last_update = [overflow |-> FALSE, before |-> InitScaleExp,
                      after |-> InitScaleExp]
    /\ preview_events = 0
    /\ ckpt_events = 0
    /\ preview_inputs = {}
    /\ events = {}

\* train() ends with the exception `e`.
Raise(e) == pc' = "raised" /\ error' = e

\* Startup, were a missing weights file reported and the run carried on with
\* the freshly constructed Generator.
StartupToleratesMissingWeights ==
    /\ pc = "start"
    /\ \E weights_present \in BOOLEAN :
          /\ pc' = "epoch"
          /\ error' = IF weights_present THEN error ELSE "missing_weights"
          /\ tracked_images' = "real_dataloader[0]"
    /\ UNCHANGED <<cfgVars, loopVars, iters, params, grads, scalerVars,
                   genVars, lossVars, ops, ghostVars, sinkVars>>

\* ------------------------------------------------------------ startup
\* Lines 14-61: models, pretrained weights, optimizers, scaler, losses,
\* dataloaders, progress lists, the held-out batch.  torch.load raises when
\* ./checkpoints/pretrained_netGF.pth is missing (line 30).
Startup ==
    /\ pc = "start"
    /\ \E weights_present \in BOOLEAN :
          IF weights_present
          THEN /\ pc' = "epoch"
               /\ error' = error
               /\ tracked_images' = "real_dataloader[0]"
          ELSE /\ Raise("missing_weights")
               /\ tracked_images' = tracked_images
    /\ UNCHANGED <<cfgVars, loopVars, iters, params, grads, scalerVars,
                   genVars, lossVars, ops, ghostVars, sinkVars>>

\* EpochStart, were the held-out batch of line 59 taken from the iterator the
\* first epoch then zips over.
EpochStartAfterHeldOut ==
    /\ pc = "epoch"
    /\ IF epoch < Epochs
       THEN /\ pc' = "zip"
            /\ it_cartoon' = 0
            /\ it_real' = IF epoch = 0 THEN 1 ELSE 0
       ELSE /\ pc' = "done"
            /\ UNCHANGED <<it_cartoon, it_real>>
    /\ UNCHANGED <<error, cfgVars, epoch, i, iters, params, grads, scalerVars,
                   genVars, tracked_images, lossVars, ops, ghostVars,
                   sinkVars>>

\* EpochStart, were the two iterators built once, before the epoch loop.
EpochStartSameIterators ==
    /\ pc = "epoch"
    /\ pc' = IF epoch < Epochs THEN "zip" ELSE "done"
    /\ UNCHANGED <<error, cfgVars, loopVars, iters, params, grads, scalerVars,
                   genVars, tracked_images, lossVars, ops, ghostVars,
                   sinkVars>>

\* Line 63: for epoch in range(epochs).  Each epoch's zip() builds fresh
\* iterators over both dataloaders (line 66).
EpochStart ==
    /\ pc = "epoch"
    /\ IF epoch < Epochs
       THEN /\ pc' = "zip"
            /\ it_cartoon' = 0
            /\ it_real' = 0
       ELSE /\ pc' = "done"
            /\ UNCHANGED <<it_cartoon, it_real>>
    /\ UNCHANGED <<error, cfgVars, epoch, i, iters, params, grads, scalerVars,
                   genVars, tracked_images, lossVars, ops, ghostVars,
                   sinkVars>>

\* Line 66: enumerate(zip(cartoon_dataloader, real_dataloader)) asks the
\* cartoon iterator first and the real iterator only when the first yielded;
\* either one being exhausted ends the epoch.
NextBatch ==
    /\ pc = "zip"
    /\ IF it_cartoon < len_cartoon
       THEN /\ it_cartoon' = it_cartoon + 1
            /\ IF it_real < len_real
               THEN /\ it_real' = it_real + 1
                    /\ i' = it_real
                    /\ epoch' = epoch
                    /\ pc' = NextPc(pc)
                    /\ ops' = <<>>
                    /\ gen_calls' = 0
                    /\ used' = [D1 |-> NoTensor, D2 |-> NoTensor,
                                content |-> NoTensor]
               ELSE /\ epoch' = epoch + 1
                    /\ pc' = "epoch"
                    /\ UNCHANGED <<it_real, i, ops, gen_calls, used>>
       ELSE /\ epoch' = epoch + 1
            /\ pc' = "epoch"
            /\ UNCHANGED <<it_cartoon, it_real, i, ops, gen_calls, used>>
    /\ UNCHANGED <<error, cfgVars, iters, params, grads, scalerVars,
                   generated_data, tracked_images, lossVars, ghostVars,
                   sinkVars>>


\* ------------------------------------------------------------ step-pair
\* The tensor the Generator update reads as generated_data, and the number
\* of netG(real_data) calls made so far in the step-pair: lines 105-112 do
\* not call netG again, so both are what line 82 left.
GeneratedForGRerun(gd, step, calls) ==
    [tensor |-> [step |-> step, call |-> calls + 1], calls |-> calls + 1]
GeneratedForG(gd, step, calls) == [tensor |-> gd, calls |-> calls]

\* Lines 73-78: netD.zero_grad(), then the batch is split and moved.
ZeroGradD ==
    /\ pc = "zero_grad_D"
    /\ grads' = [grads EXCEPT !["D"] = ZeroGrad(@)]
    /\ ops' = Append(ops, "zero_grad_D")
    /\ pc' = NextPc(pc)
    /\ UNCHANGED <<error, cfgVars, loopVars, iters, params, scalerVars,
                   genVars, tracked_images, lossVars, ghostVars, sinkVars>>

\* Line 82: generated_data = netG(real_data), a new tensor with its graph.
ForwardG ==
    /\ pc = "forward_G"
    /\ gen_calls' = gen_calls + 1
    /\ generated_data' = [step |-> iters, call |-> gen_calls + 1]
    /\ ops' = Append(ops, "G_forward")
    /\ pc' = NextPc(pc)
    /\ UNCHANGED <<error, cfgVars, loopVars, iters, params, grads, scalerVars,
                   used, tracked_images, lossVars, ghostVars, sinkVars>>

\* Lines 85-90: netD on cartoon_data, edge_data and generated_data; errD.
ForwardD ==
    /\ pc = "forward_D"
    /\ used' = [used EXCEPT !.D1 = generated_data]
    /\ ops' = Append(ops, "D_forward")
    /\ pc' = NextPc(pc)
    /\ UNCHANGED <<error, cfgVars, loopVars, iters, params, grads, scalerVars,
                   generated_data, gen_calls, tracked_images, lossVars,
                   ghostVars, sinkVars>>

\* Lines 93-94: scaler.scale(errD).backward(retain_graph=True).
BackwardD ==
    /\ pc = "backward_D"
    /\ \E infs \in [Models -> Overflows] :
          grads' = Backward(grads, "errD",
                            Contribution(iters, "errD",
                                         ScaleOf(ScalerEnabled, scale_exp)),
                            infs)
    /\ ops' = Append(ops, "D_backward")
    /\ pc' = NextPc(pc)
    /\ UNCHANGED <<error, cfgVars, loopVars, iters, params, scalerVars,
                   genVars, tracked_images, lossVars, ghostVars, sinkVars>>

\* scaler.step(optimizer) for the optimizer over model m's parameters.
StepOptimizer(m) ==
    /\ params' = [params EXCEPT ![m] = ScalerStep(ScalerEnabled, @, grads[m])]
    /\ found_inf' = [found_inf EXCEPT ![m] = FoundInf(ScalerEnabled, grads[m])]
    /\ seen_inf' = [seen_inf EXCEPT ![m] = grads[m].inf]

\* Line 97: scaler.step(optimizerD).
StepD ==
    /\ pc = "step_D"
    /\ StepOptimizer(OptimizerDParams)
    /\ ops' = Append(ops, "D_step")
    /\ pc' = NextPc(pc)
    /\ UNCHANGED <<error, cfgVars, loopVars, iters, grads, scale_exp,
                   growth_tracker, genVars, tracked_images, lossVars, ok_run,
                   grew, last_update, sinkVars>>

\* Line 105: netG.zero_grad().
ZeroGradG ==
    /\ pc = "zero_grad_G"
    /\ grads' = [grads EXCEPT !["G"] = ZeroGrad(@)]
    /\ ops' = Append(ops, "zero_grad_G")
    /\ pc' = NextPc(pc)
    /\ UNCHANGED <<error, cfgVars, loopVars, iters, params, scalerVars,
                   genVars, tracked_images, lossVars, ghostVars, sinkVars>>

\* Lines 109-112: netD(generated_data) again, then
\* errG = BCE_loss(generated_pred, cartoon_labels)
\*        + content_loss(generated_data, real_data).
ForwardD2 ==
    /\ pc = "forward_D2"
    /\ LET g == GeneratedForG(generated_data, iters, gen_calls)
       IN  /\ generated_data' = g.tensor
           /\ gen_calls' = g.calls
           /\ used' = [used EXCEPT !.D2 = g.tensor, !.content = g.tensor]
    /\ ops' = Append(ops, "D_forward2")
    /\ pc' = NextPc(pc)
    /\ UNCHANGED <<error, cfgVars, loopVars, iters, params, grads, scalerVars,
                   tracked_images, lossVars, ghostVars, sinkVars>>

\* Lines 115-117: scaler.scale(errG).backward().
BackwardG ==
    /\ pc = "backward_G"
    /\ \E infs \in [Models -> Overflows] :
          grads' = Backward(grads, "errG",
                            Contribution(iters, "errG",
                                         ScaleOf(ScalerEnabled, scale_exp)),
                            infs)
    /\ ops' = Append(ops, "G_backward")
    /\ pc' = NextPc(pc)
    /\ UNCHANGED <<error, cfgVars, loopVars, iters, params, scalerVars,
                   genVars, tracked_images, lossVars, ghostVars, sinkVars>>

\* Line 120: scaler.step(optimizerG).
StepG ==
    /\ pc = "step_G"
    /\ StepOptimizer(OptimizerGParams)
    /\ ops' = Append(ops, "G_step")
    /\ pc' = NextPc(pc)
    /\ UNCHANGED <<error, cfgVars, loopVars, iters, grads, scale_exp,
                   growth_tracker, genVars, tracked_images, lossVars, ok_run,
                   grew, last_update, sinkVars>>


\* Line 122: scaler.update().  It reads the found_inf records of every
\* optimizer stepped since the last update() and clears them.
Update ==
    /\ pc = "update"
    /\ LET overflow == \E m \in Models : found_inf[m] = "inf"
           seen     == \E m \in Models : seen_inf[m]
           u        == ScalerUpdate(ScalerEnabled, scale_exp, growth_tracker,
                                    overflow)
       IN  /\ scale_exp' = u.scale_exp
           /\ growth_tracker' = u.growth_tracker
           /\ last_update' = [overflow |-> seen, before |-> scale_exp,
                              after |-> u.scale_exp]
           /\ ok_run' = IF seen THEN 0 ELSE ok_run + 1
           /\ grew' = IF seen THEN FALSE
                      ELSE grew \/ u.scale_exp > scale_exp
    /\ found_inf' = [m \in Models |-> "none"]
    /\ seen_inf' = [m \in Models |-> FALSE]
    /\ ops' = Append(ops, "scaler_update")
    /\ pc' = NextPc(pc)
    /\ UNCHANGED <<error, cfgVars, loopVars, iters, params, grads, genVars,
                   tracked_images, lossVars, sinkVars>>

\* AppendLosses, were the losses of a step-pair recorded only when no
\* optimizer update was skipped.
AppendLossesUnlessOverflow ==
    /\ pc = "append"
    /\ IF last_update.overflow
       THEN UNCHANGED <<G_losses, D_losses>>
       ELSE /\ G_losses' = Append(G_losses, iters)
            /\ D_losses' = Append(D_losses, iters)
    /\ pc' = NextPc(pc)
    /\ UNCHANGED <<error, cfgVars, loopVars, iters, params, grads, scalerVars,
                   genVars, tracked_images, ops, ghostVars, sinkVars>>

\* Lines 127-133: both losses are appended to the histories; the progress
\* line is printed when i % 125 == 0.
AppendLosses ==
    /\ pc = "append"
    /\ G_losses' = Append(G_losses, iters)
    /\ D_losses' = Append(D_losses, iters)
    /\ pc' = NextPc(pc)
    /\ UNCHANGED <<error, cfgVars, loopVars, iters, params, grads, scalerVars,
                   genVars, tracked_images, ops, ghostVars, sinkVars>>

\* Lines 135-138: when due, netG(tracked_images) under no_grad and
\* save_image; save_image raises when images/ cannot be written, and nothing
\* around it catches.
Preview ==
    /\ pc = "preview"
    /\ IF PreviewDue(iters, preview_interval)
       THEN \E written \in BOOLEAN :
               IF written
               THEN /\ preview_events' = preview_events + 1
                    /\ preview_inputs' = preview_inputs \cup {PreviewInput}
                    /\ events' = events \cup {SinkEvent("preview", iters)}
                    /\ pc' = NextPc(pc)
                    /\ error' = error
               ELSE /\ Raise("preview_io")
                    /\ UNCHANGED <<preview_events, preview_inputs, events>>
       ELSE /\ pc' = NextPc(pc)
            /\ UNCHANGED <<error, preview_events, preview_inputs, events>>
    /\ UNCHANGED <<cfgVars, loopVars, iters, params, grads, scalerVars,
                   genVars, tracked_images, lossVars, ops, ghostVars,
                   ckpt_events>>

\* Lines 140-142: when due, torch.save of netG's and then netD's state_dict;
\* either raises when checkpoints_new/ cannot be written, and nothing around
\* them catches.
Checkpoint ==
    /\ pc = "checkpoint"
    /\ IF CheckpointDue(iters, checkpoint_interval)
       THEN \E outcome \in {"saved", "netG_failed", "netD_failed"} :
               IF outcome = "saved"
               THEN /\ ckpt_events' = ckpt_events + 1
                    /\ events' = events \cup {SinkEvent("checkpoint", iters)}
                    /\ pc' = NextPc(pc)
                    /\ error' = error
               ELSE /\ Raise("checkpoint_io")
                    /\ UNCHANGED <<ckpt_events, events>>
       ELSE /\ pc' = NextPc(pc)
            /\ UNCHANGED <<error, ckpt_events, events>>
    /\ UNCHANGED <<cfgVars, loopVars, iters, params, grads, scalerVars,
                   genVars, tracked_images, lossVars, ops, ghostVars,
                   preview_events, preview_inputs>>

\* Line 144: iters += 1, then back to the zip of line 66.
Increment ==
    /\ pc = "increment"
    /\ iters' = iters + 1
    /\ pc' = NextPc(pc)
    /\ UNCHANGED <<error, cfgVars, loopVars, params, grads, scalerVars,
                   genVars, tracked_images, lossVars, ops, ghostVars,
                   sinkVars>>

Next ==
    \/ Startup
    \/ EpochStart
    \/ NextBatch
    \/ ZeroGradD
    \/ ForwardG
    \/ ForwardD
    \/ BackwardD
    \/ StepD
    \/ ZeroGradG
    \/ ForwardD2
    \/ BackwardG
    \/ StepG
    \/ Update
    \/ AppendLosses
    \/ Preview
    \/ Checkpoint
    \/ Increment

Spec == Init /\ [][Next]_vars

\* train() runs in one thread that nothing suspends: whenever it has a next
\* statement, it executes it.
FairSpec == Spec /\ WF_vars(Next)


\* ================================================================ claims
\* Helpers of the properties below.
Count(seq, x) == Cardinality({k \in DOMAIN seq : seq[k] = x})
Pos(seq, x) == CHOOSE k \in DOMAIN seq : seq[k] = x
IsPrefix(a, b) == Len(a) <= Len(b) /\ \A k \in DOMAIN a : a[k] = b[k]

\* The positions at which the current step-pair's scaler.update() is behind.
AfterSync == {"append", "preview", "checkpoint", "increment"}
\* A step-pair has run through its scaler.update() and no later one began.
StepPairOver ==
    \/ pc \in AfterSync
    \/ pc \in {"zip", "epoch", "done"} /\ iters > 0
    \/ pc = "raised" /\ error \in {"preview_io", "checkpoint_io"}

\* The positions of the Generator update (lines 105-120).
GeneratorUpdate == {"zero_grad_G", "forward_D2", "backward_G", "step_G"}

ErrD == Contribution(iters, "errD", ScaleOf(ScalerEnabled, scale_exp))
ErrG == Contribution(iters, "errG", ScaleOf(ScalerEnabled, scale_exp))

\* ---------------------------------------------------------------- C1
InStepOrder(op) ==
    op \in {"D_forward", "D_backward", "D_step", "D_forward2", "G_backward",
            "G_step", "scaler_update"}
StepOrder == <<"D_forward", "D_backward", "D_step", "D_forward2",
               "G_backward", "G_step", "scaler_update">>

\* C1: in every step-pair the operations run in the order Discriminator
\* forward, Discriminator backward, Discriminator step, second Discriminator
\* forward, Generator backward, Generator step, scaler update: what has run
\* of a step-pair is always a prefix of that order, and the loop is past the
\* update (on its way to the next batch) only when all seven have run.
C1_StepOrder ==
    /\ IsPrefix(SelectSeq(ops, InStepOrder), StepOrder)
    /\ StepPairOver => SelectSeq(ops, InStepOrder) = StepOrder

\* A second step-pair has run all seven operations in order.
C1_Witness ==
    pc = "append" /\ iters = 1 /\ SelectSeq(ops, InStepOrder) = StepOrder

\* ---------------------------------------------------------------- C2
\* One step of train(): if it is the backward pass of line 93, the
\* Generator's accumulated gradient is the same after it.
DBackwardStepLeavesGeneratorGrad ==
    pc = "backward_D" => grads'["G"] = grads["G"]

\* C2: the Discriminator's backward pass (line 93) leaves the Generator's
\* accumulated gradient unchanged.
C2_DBackwardLeavesGeneratorGrad ==
    [][DBackwardStepLeavesGeneratorGrad]_vars

\* ---------------------------------------------------------------- C3
\* One step of train(): if it belongs to the Generator update, netD's
\* parameters and accumulated gradient are the same after it.
GUpdateStepLeavesDiscriminator ==
    pc \in GeneratorUpdate =>
       params'["D"] = params["D"] /\ grads'["D"] = grads["D"]

\* The same for the parameters; for the accumulated gradient, every step but
\* the backward pass of line 115 leaves it, and that one adds errG to it.
GUpdateStepLeavesDiscriminatorParams ==
    pc \in GeneratorUpdate =>
       /\ params'["D"] = params["D"]
       /\ pc # "backward_G" => grads'["D"] = grads["D"]
       /\ pc = "backward_G" => grads'["D"].from = grads["D"].from \cup {ErrG}

\* C3 as stated: the Generator update (lines 105-120) changes neither the
\* Discriminator's parameters nor the Discriminator's accumulated gradient.
C3_GUpdateLeavesDiscriminator ==
    [][GUpdateStepLeavesDiscriminator]_vars

\* C3, amended: the Generator update never changes the Discriminator's
\* parameters; netG.zero_grad(), the second forward and
\* scaler.step(optimizerG) leave the Discriminator's accumulated gradient
\* unchanged, and the Generator backward pass adds exactly errG's gradient
\* to it.
C3_GUpdateLeavesDiscriminatorParams ==
    [][GUpdateStepLeavesDiscriminatorParams]_vars

\* The Generator's optimizer has stepped and errG's gradient sits in the
\* Discriminator's accumulated gradient.
C3_Witness ==
    /\ pc = "update"
    /\ params["G"].updates > 0
    /\ ErrG \in grads["D"].from

\* ---------------------------------------------------------------- C4
\* C4: when scaler.step(optimizerD) runs the Discriminator's gradient holds
\* this batch's errD and nothing else, and when scaler.step(optimizerG) runs
\* the Generator's gradient holds this batch's errG and nothing else.
C4_StepsSeeOwnLossOnly ==
    /\ pc = "step_D" => grads["D"].from = {ErrD}
    /\ pc = "step_G" => grads["G"].from = {ErrG}

\* A later step-pair reaches the Generator's step with a clean gradient, the
\* Discriminator's gradient holding both losses by then.
C4_Witness ==
    /\ pc = "step_G"
    /\ iters >= 1
    /\ grads["G"].from = {ErrG}
    /\ grads["D"].from = {ErrD, ErrG}

\* ---------------------------------------------------------------- C5
\* C5: netG(real_data) runs once per step-pair, and the tensor it returned
\* is the one read by the first netD(generated_data), by the second
\* netD(generated_data) and by content_loss.
C5_GeneratedOnceAndShared ==
    /\ gen_calls <= 1
    /\ pc \in {"backward_G", "step_G", "update"} \cup AfterSync =>
          /\ gen_calls = 1
          /\ generated_data = [step |-> iters, call |-> 1]
          /\ used.D1 = generated_data
          /\ used.D2 = generated_data
          /\ used.content = generated_data

\* A later step-pair is past its second forward with one shared tensor.
C5_Witness ==
    /\ pc = "backward_G"
    /\ iters >= 1
    /\ gen_calls = 1
    /\ used.D1 = generated_data
    /\ used.D2 = generated_data


\* ---------------------------------------------------------------- C6
\* What C6 asks of one step of train(), given that a gradient scaler is at
\* work whenever `active` holds: a scaler.step(optimizer) that finds a
\* non-finite gradient leaves that optimizer's parameters as they were and
\* goes on to the next statement; the scaler.update() that follows such a
\* step lowers the scale factor and goes on to line 127.
OverflowIsAbsorbed(active) ==
    /\ (active /\ pc = "step_D" /\ grads["D"].inf) =>
          params'["D"] = params["D"] /\ pc' = "zero_grad_G"
    /\ (active /\ pc = "step_G" /\ grads["G"].inf) =>
          params'["G"] = params["G"] /\ pc' = "update"
    /\ (active /\ pc = "update" /\ \E m \in Models : seen_inf[m]) =>
          scale_exp' < scale_exp /\ pc' = "append"

C7_OneUpdateAfterBothSteps ==
    /\ Count(ops, "scaler_update") <= 1
    /\ StepPairOver => Count(ops, "scaler_update") = 1
    /\ Count(ops, "scaler_update") = 1 =>
          /\ Count(ops, "D_step") = 1
          /\ Count(ops, "G_step") = 1
          /\ Pos(ops, "D_step") < Pos(ops, "G_step")
          /\ Pos(ops, "G_step") < Pos(ops, "scaler_update")

\* The loop is between the two optimizer steps of a later step-pair and
\* update() has not been called in it.
C7_Witness ==
    /\ pc = "backward_G"
    /\ iters >= 1
    /\ Count(ops, "D_step") = 1
    /\ Count(ops, "scaler_update") = 0

C9_FiveStepsTwoCheckpoints ==
    (checkpoint_interval = 2 /\ iters = 5) => ckpt_events = 2

\* C9, amended: they produce exactly 3 (at iters 0, 2 and 4).
C9_FiveStepsThreeCheckpoints ==
    (checkpoint_interval = 2 /\ iters = 5) => ckpt_events = 3

\* The fifth step-pair has just ended under a checkpoint interval of 2.
C9_Witness ==
    /\ checkpoint_interval = 2
    /\ iters = 5
    /\ pc = "zip"
    /\ ckpt_events = 3

\* --------------------------------------------------------------- C10
\* C10: a failed preview or checkpoint write does not end train().
C10_WriteFailureIsNotFatal ==
    ~(pc = "raised" /\ error \in {"preview_io", "checkpoint_io"})

\* --------------------------------------------------------------- C11
Min(a, b) == IF a <= b THEN a ELSE b

\* C11: an epoch runs exactly min(len(cartoon_dataloader),
\* len(real_dataloader)) step-pairs and ends, without an error, when the
\* shorter source is exhausted; the first epoch runs that many too, the
\* held-out batch of line 59 notwithstanding.  (When an epoch has ended, i
\* is the index of its last step-pair.)
C11_EpochRunsMinOfLengths ==
    (pc = "epoch" /\ epoch >= 1) =>
        /\ error = "none"
        /\ i + 1 = Min(len_cartoon, len_real)
        /\ it_real = Min(len_cartoon, len_real)
        /\ epoch = 1 => iters = Min(len_cartoon, len_real)

\* The first epoch has ended over sources of lengths 3 and 2, after 2
\* step-pairs, the cartoon source having yielded a third batch that no
\* step-pair used.
C11_Witness ==
    /\ pc = "epoch"
    /\ epoch = 1
    /\ len_cartoon = 3
    /\ len_real = 2
    /\ it_cartoon = 3
    /\ iters = 2

\* --------------------------------------------------------------- C12
\* C12: a run whose pretrained weights are missing ends at line 30, before
\* any step: no optimizer step, no backward pass, no scaler update, no loss
\* recorded, no preview and no checkpoint ever happens in it.
C12_MissingWeightsAbortBeforeAnyStep ==
    error = "missing_weights" =>
        /\ pc = "raised"
        /\ iters = 0
        /\ ops = <<>>
        /\ params = [m \in Models |-> InitParams]
        /\ grads = [m \in Models |-> NoGrad]
        /\ scale_exp = InitScaleExp /\ growth_tracker = 0
        /\ G_losses = <<>> /\ D_losses = <<>>
        /\ tracked_images = "none"
        /\ events = {} /\ preview_events = 0 /\ ckpt_events = 0

\* train() has ended on the missing weights file.
C12_Witness == pc = "raised" /\ error = "missing_weights"

\* --------------------------------------------------------------- C13
\* One step of train() moves iters only at line 144, and then by one.
ItersCountsStepPairs ==
    /\ iters' = iters \/ iters' = iters + 1
    /\ iters' = iters + 1 <=> pc = "increment"

\* The artifacts written so far are those the counter asks for: a preview at
\* n only if n is a multiple of the preview interval, a checkpoint at n only
\* if n is a multiple of the checkpoint interval and a preview was written
\* at n too, and every step-pair that has ended wrote the ones due at its n.
SinkFollowsCounter ==
    /\ \A e \in events : e.step \in 0..iters
    /\ \A n \in 0..iters :
          /\ SinkEvent("preview", n) \in events => n % preview_interval = 0
          /\ SinkEvent("checkpoint", n) \in events =>
                /\ n % checkpoint_interval = 0
                /\ SinkEvent("preview", n) \in events
          /\ n < iters =>
                /\ n % preview_interval = 0 =>
                      SinkEvent("preview", n) \in events
                /\ n % checkpoint_interval = 0 =>
                      SinkEvent("checkpoint", n) \in events
    /\ iters >= 1 =>
          {SinkEvent("preview", 0), SinkEvent("checkpoint", 0)} \subseteq events

\* C13: iters starts at 0, grows by exactly 1 at the end of every step-pair
\* and at no other point (so it never falls and no epoch resets it); a
\* preview is written in a step-pair exactly when iters, before the
\* increment, is a multiple of the preview interval, a checkpoint exactly
\* when it is a multiple of the checkpoint interval; the first step-pair
\* writes both and every checkpoint comes with a preview.
C13_CounterDrivesSink ==
    /\ iters = 0
    /\ [][ItersCountsStepPairs]_vars
    /\ []SinkFollowsCounter

\* Five step-pairs have ended, across an epoch boundary, under intervals 2
\* and 4: previews at 0, 2 and 4, checkpoints at 0 and 4.
C13_Witness ==
    /\ pc = "zip"
    /\ epoch = 1
    /\ iters = 5
    /\ preview_interval = 2
    /\ checkpoint_interval = 4
    /\ events = {SinkEvent("preview", 0), SinkEvent("preview", 2),
                 SinkEvent("preview", 4), SinkEvent("checkpoint", 0),
                 SinkEvent("checkpoint", 4)}

\* --------------------------------------------------------------- C14
\* What C14 asks of one step of train(), given that a gradient scaler is at
\* work whenever `active` holds: the scale factor changes in scaler.update()
\* only, so the gradients of errD and errG of one step-pair carry the same
\* factor; an update() that follows a non-finite gradient in either
\* optimizer's step lowers the factor; and a non-finite gradient met by the
\* Discriminator's step alone leaves the Generator's step to apply its
\* update.
OneScaleForBothModels(active) ==
    /\ scale_exp' # scale_exp => pc = "update"
    /\ pc = "backward_G" =>
          \A c1, c2 \in grads'["D"].from \cup grads'["G"].from :
              c1.step = c2.step => c1.scale = c2.scale
    /\ (active /\ pc = "update" /\ \E m \in Models : seen_inf[m]) =>
          scale_exp' = scale_exp - 1
    /\ (pc = "step_G" /\ seen_inf["D"] /\ ~grads["G"].inf) =>
          params'["G"] = OptimizerStep(params["G"], grads["G"])

C15_TerminatesAfterAllEpochs ==
    /\ <>(pc \in {"done", "raised"})
    /\ [](pc \in {"epoch", "done"} =>
             /\ error = "none"
             /\ iters = epoch * Min(len_cartoon, len_real))
    /\ [](pc = "done" =>
             /\ epoch = Epochs
             /\ iters = Epochs * Min(len_cartoon, len_real))

\* train() has returned after two or more epochs over sources of unequal
\* length.
C15_Witness ==
    /\ pc = "done"
    /\ error = "none"
    /\ epoch >= 2
    /\ len_cartoon = 2
    /\ len_real = 3
    /\ iters = epoch * 2

\* --------------------------------------------------------------- C16
\* One step of train(): the preview and the checkpoint change no parameter,
\* no accumulated gradient and nothing of the scaler (an optimizer's state
\* moves only with its parameters, in scaler.step), and the held-out batch is
\* bound once, at line 59.
SinkStepIsReadOnly ==
    /\ pc \in {"preview", "checkpoint"} =>
          /\ params' = params
          /\ grads' = grads
          /\ scale_exp' = scale_exp
          /\ growth_tracker' = growth_tracker
          /\ found_inf' = found_inf
    /\ pc # "start" => tracked_images' = tracked_images

\* C16: a preview and a checkpoint leave both models' parameters and
\* accumulated gradients, both optimizers and the scale factor as they
\* were, and every preview is rendered from the one batch captured at
\* line 59, before the first epoch.
C16_SinkIsReadOnly ==
    /\ [][SinkStepIsReadOnly]_vars
    /\ [](preview_inputs \subseteq {"real_dataloader[0]"})
    /\ [](pc \notin {"start", "raised"} =>
             tracked_images = "real_dataloader[0]")

\* Previews and a checkpoint have been written in both epochs of a run whose
\* models have been updated in between, all previews from the one batch.
C16_Witness ==
    /\ epoch = 1
    /\ pc = "increment"
    /\ preview_events >= 3
    /\ ckpt_events >= 2
    /\ params["G"].updates >= 3
    /\ preview_inputs = {"real_dataloader[0]"}

\* --------------------------------------------------------------- C17
\* The positions between the appends of lines 127-128 and the increment of
\* line 144 of the same step-pair.
AppendedNotCounted ==
    \/ pc \in {"preview", "checkpoint", "increment"}
    \/ pc = "raised" /\ error \in {"preview_io", "checkpoint_io"}

\* C17: every step-pair appends one value to G_losses and one to D_losses,
\* whether or not an optimizer update was skipped for overflow: the two
\* lists hold one entry per step-pair, in order, and once a step-pair has
\* ended (after line 144) both are iters long.
C17_OneLossPairPerStepPair ==
    /\ G_losses = D_losses
    /\ \A k \in DOMAIN G_losses : G_losses[k] = k - 1
    /\ Len(G_losses) = IF AppendedNotCounted THEN iters + 1 ELSE iters

\* With CUDA, three step-pairs have ended, each having skipped both of its
\* optimizer updates for overflow, and three losses of each kind are kept.
C17_Witness ==
    /\ cuda
    /\ pc = "zip"
    /\ iters = 3
    /\ params["D"].updates = 0
    /\ params["G"].updates = 0
    /\ Len(G_losses) = 3
    /\ Len(D_losses) = 3

====
